---- MODULE Spec2Model ----
(***************************************************************************)
(* A model of stm32loader.py: the CommandInterface class (the host side of *)
(* the STM32 UART bootloader protocol) and the driver session of the       *)
(* script's __main__ block.                                                *)
(*                                                                         *)
(* Every method is a pure operator from a context record (the object's     *)
(* fields plus the I/O trace of the call) to a context record.  A Python   *)
(* exception is the field err # "": every later step of the call is then   *)
(* skipped, as the exception unwinds the method.  The device is the        *)
(* environment: its handshake replies and data are inputs of each action.  *)
(***************************************************************************)
EXTENDS Integers, Sequences, FiniteSets, TLC

VARIABLES
    op,             \* the method that ran last; "idle" between two calls
    arg,            \* its arguments and the device's script
    io,             \* the I/O trace: bytes written, handshake bytes read, data reads, control lines
    err,            \* "" or the exception the method raised
    ret,            \* the value the method returned
    calls,          \* the cmdReadMemory / cmdWriteMemory calls the method made
    buf,            \* the caller's data buffer (writeMemory extends it in place)
    extended_erase, \* CommandInterface.extended_erase
    timeout,        \* self.sp.timeout
    pin_boot0,      \* self._boot0
    pin_rst,        \* self._rst
    rts_pol,        \* self._rts_pol
    dtr_pol,        \* self._dtr_pol
    erased,         \* the erase opcodes issued so far on this object
    negotiated,     \* cmdGet has returned a version on this object
    pc,             \* position of __main__ in its session
    sync,           \* outcome of initChip in __main__
    released        \* how many times __main__ ran releaseChip

vars == <<op, arg, io, err, ret, calls, buf, extended_erase, timeout,
          pin_boot0, pin_rst, rts_pol, dtr_pol, erased, negotiated, pc, sync,
          released>>

(***************************************************************************)
(* Bounds of the model.                                                    *)
(***************************************************************************)
MaxLen == 600       \* longest read / write request
MaxSectors == 2     \* longest sector list
MaxAcks == 4        \* the device may break any of the first MaxAcks handshakes
MaxShort == 2       \* the device may cut short any of the first MaxShort data reads
MaxGetLen == 2      \* largest length byte the device sends in its answer to Get

(***************************************************************************)
(* Bytes and the protocol's constants.                                     *)
(***************************************************************************)
Byte == 0..255
ACK == 121          \* 0x79
NACK == 31          \* 0x1F
NoByte == -1        \* sp.read() timed out and returned b"": [0] raises
ReadTimeout == 5
EraseTimeout == 30

RECURSIVE Xor(_, _)
\* Python's a ^ b on non-negative integers.
Xor(a, b) ==
    IF a = 0 THEN b
    ELSE IF b = 0 THEN a
    ELSE (((a % 2) + (b % 2)) % 2) + (2 * Xor(a \div 2, b \div 2))

RECURSIVE XorRange(_, _, _)
\* s[lo] ^ ... ^ s[hi], halving the range (^ is associative)
XorRange(s, lo, hi) ==
    IF lo > hi THEN 0
    ELSE IF lo = hi THEN s[lo]
    ELSE LET mid == (lo + hi) \div 2
         IN Xor(XorRange(s, lo, mid), XorRange(s, mid + 1, hi))

\* crc = seed; for c in s: crc = crc ^ c
XorFold(seed, s) == Xor(seed, XorRange(s, 1, Len(s)))

(***************************************************************************)
(* The device: every handshake is answered with ACK except the failAt-th   *)
(* one of a call, which is answered with failByte (failAt = 0: none fails).*)
(* The code stops at the first handshake that is not ACK, so what the      *)
(* device would have sent after it is never read.  short is the data read  *)
(* of the call that times out one byte early (0: none).                    *)
(***************************************************************************)
FailBytes == {NACK, 0, NoByte}

Devices ==
    {d \in [failAt : 0..MaxAcks, failByte : FailBytes, short : 0..MaxShort] :
        d.failAt = 0 => d.failByte = NACK}

AckDevices == {d \in Devices : d.short = 0}

Reply(dev, k) == IF k = dev.failAt THEN dev.failByte ELSE ACK

\* The byte the device holds at address a.
MemByte(a) == (a + (a \div 256)) % 256

(***************************************************************************)
(* Transport primitives.                                                   *)
(***************************************************************************)
Raise(c, e) == IF c.err # "" THEN c ELSE [c EXCEPT !.err = e]

\* self.sp.write(bytearray(bytes)); bytearray() raises ValueError on a value
\* outside 0..255 and then nothing is written.
Write(c, bytes) ==
    IF c.err # "" THEN c
    ELSE IF \E i \in 1..Len(bytes) : bytes[i] \notin Byte
         THEN [c EXCEPT !.err = "ValueError"]
    ELSE [c EXCEPT !.io = @ \o [i \in 1..Len(bytes) |-> [e |-> "w", v |-> bytes[i]]]]

\* self.sp.setRTS(level) / self.sp.setDTR(level)
SetLine(c, pin, level) ==
    IF c.err # "" THEN c
    ELSE [c EXCEPT !.io = Append(@, [e |-> pin, v |-> level])]

\* The classification of _wait_for_ask: b is the byte read, NoByte when the
\* read returned nothing.
wait_for_ask_unknown_ok(b) ==
    IF b = NoByte THEN "timeout"
    ELSE IF b = NACK THEN "nack"
    ELSE "ack"

wait_for_ask(b) ==
    IF b = NoByte THEN "timeout"
    ELSE IF b = ACK THEN "ack"
    ELSE IF b = NACK THEN "nack"
    ELSE "unknown"

\* _wait_for_ask as a step of a call: one read of one byte, then return 1 or
\* raise CmdException.
WaitAck(c, dev) ==
    IF c.err # "" THEN c
    ELSE LET b == Reply(dev, c.k + 1)
             r == wait_for_ask(b)
         IN [c EXCEPT !.k = @ + 1,
                      !.io = Append(@, [e |-> "ack", v |-> b]),
                      !.err = IF r = "ack" THEN "" ELSE r]

\* self.sp.read(n) of payload data: the trace keeps the size asked for.
ReadData(c, n) ==
    IF c.err # "" THEN c
    ELSE [c EXCEPT !.io = Append(@, [e |-> "read", v |-> n]), !.r = @ + 1]

(***************************************************************************)
(* open().                                                                 *)
(***************************************************************************)
\* An attribute the object does not have yet.
Unset == "unset"

\* str.upper() on the line names the model passes to open().
upper(s) ==
    CASE s = "rts" -> "RTS"
      [] s = "dtr" -> "DTR"
      [] s = "cts" -> "CTS"
      [] OTHER -> s

\* open(aport, abaudrate, boot0, rst): serial.Serial(...) opens the port
\* (portOk: the port exists and can be opened) with timeout = 5, then the two
\* names are stored, and only then checked.
open(c, portOk, b0, r) ==
    IF ~portOk THEN Raise(c, "SerialException")
    ELSE
    LET c1 == [c EXCEPT !.io = Append(@, [e |-> "open", v |-> ReadTimeout]),
                        !.timeout = ReadTimeout]
        c2 == [c1 EXCEPT !.pin_boot0 = upper(b0), !.pin_rst = upper(r)]
    IN IF c2.pin_boot0 = c2.pin_rst THEN Raise(c2, "ValueError")
       ELSE IF c2.pin_boot0 \notin {"RTS", "DTR"} \/ c2.pin_rst \notin {"RTS", "DTR"}
       THEN Raise(c2, "ValueError")
       ELSE [c2 EXCEPT !.dtr_pol = 0, !.rts_pol = 0]

(***************************************************************************)
(* Control lines.                                                          *)
(***************************************************************************)
boot0(c, state) ==
    IF c.pin_boot0 = "RTS"
    THEN SetLine(c, "RTS", Xor(state, c.rts_pol))
    ELSE SetLine(c, "DTR", Xor(state, c.dtr_pol))

rst(c, state) ==
    IF c.pin_rst = "RTS"
    THEN SetLine(c, "RTS", Xor(state, c.rts_pol))
    ELSE SetLine(c, "DTR", Xor(state, c.dtr_pol))

reset(c) == rst(rst(c, 0), 1)

\* initChip that pulses the reset line before it sets boot0
initChip_reset_first(c, dev) == WaitAck(Write(boot0(reset(c), 0), <<127>>), dev)

initChip(c, dev) == WaitAck(Write(reset(boot0(c, 0)), <<127>>), dev)

releaseChip(c) == reset(boot0(c, 1))

(***************************************************************************)
(* Commands.                                                               *)
(***************************************************************************)
\* cmdGeneric that sends its frame once more when the handshake fails
cmdGeneric_retry(c, dev, cmd) ==
    LET c1 == WaitAck(Write(Write(c, <<cmd>>), <<Xor(cmd, 255)>>), dev)
    IN IF c.err = "" /\ c1.err # ""
       THEN WaitAck(Write(Write([c1 EXCEPT !.err = ""], <<cmd>>), <<Xor(cmd, 255)>>), dev)
       ELSE c1

\* cmdGeneric that writes the control byte before the opcode
cmdGeneric_swapped(c, dev, cmd) ==
    WaitAck(Write(Write(c, <<Xor(cmd, 255)>>), <<cmd>>), dev)

cmdGeneric(c, dev, cmd) ==
    WaitAck(Write(Write(c, <<cmd>>), <<Xor(cmd, 255)>>), dev)

\* _encode_addr with the least significant byte first
encode_addr_words_le(hi, lo) ==
    LET byte3 == lo % 256
        byte2 == (lo \div 256) % 256
        byte1 == hi % 256
        byte0 == (hi \div 256) % 256
        crc == Xor(Xor(Xor(byte0, byte1), byte2), byte3)
    IN <<byte3, byte2, byte1, byte0, crc>>

\* _encode_addr on an address given as its two 16-bit halves, addr >> 16 and
\* addr & 0xFFFF: the model's integers end at 2^31 - 1, an address does not.
encode_addr_words(hi, lo) ==
    LET byte3 == lo % 256
        byte2 == (lo \div 256) % 256
        byte1 == hi % 256
        byte0 == (hi \div 256) % 256
        crc == Xor(Xor(Xor(byte0, byte1), byte2), byte3)
    IN <<byte0, byte1, byte2, byte3, crc>>

encode_addr(addr) == encode_addr_words(addr \div 65536, addr % 65536)

\* low byte first
cast_to_two_bytes_le(value) == <<value % 256, value \div 256>>

cast_to_two_bytes(value) == <<value \div 256, value % 256>>

\* One self.sp.read() whose first byte is taken with [0]: b is the byte the
\* device sent, NoByte when the read timed out (IndexError).
ReadByte(c, b) ==
    LET c1 == ReadData(c, 1)
    IN IF b = NoByte THEN Raise(c1, "IndexError") ELSE c1

\* for x in s: self.sp.write(bytearray([x])): the bytes before the first
\* value outside 0..255 are written, then bytearray() raises ValueError.
WriteEach(c, s) ==
    LET bad == {i \in 1..Len(s) : s[i] \notin Byte}
        first == CHOOSE i \in bad : \A j \in bad : i <= j
    IN IF bad = {} THEN Write(c, s)
       ELSE Raise(Write(c, SubSeq(s, 1, first - 1)), "ValueError")

\* cmdGet with the flag assigned the test's result: self.extended_erase = 0x44 in dat
cmdGet_assign(c, dev, gr) ==
    LET c1 == cmdGeneric(c, dev, 0)
        c2 == ReadByte(c1, gr.len)
        c3 == ReadByte(c2, gr.ver)
        c4 == ReadData(c3, gr.len)
        c5 == IF c4.err = ""
              THEN [c4 EXCEPT !.extended_erase = (\E i \in 1..Len(gr.dat) : gr.dat[i] = 68)]
              ELSE c4
        c6 == WaitAck(c5, dev)
    IN IF c6.err = "" THEN [c6 EXCEPT !.ret = gr.ver] ELSE c6

\* cmdGet that reads one byte more than the length byte says
cmdGet_len_plus_one(c, dev, gr) ==
    LET c1 == cmdGeneric(c, dev, 0)
        c2 == ReadByte(c1, gr.len)
        c3 == ReadByte(c2, gr.ver)
        c4 == ReadData(c3, gr.len + 1)
        c5 == IF c4.err = "" /\ (\E i \in 1..Len(gr.dat) : gr.dat[i] = 68)
              THEN [c4 EXCEPT !.extended_erase = TRUE]
              ELSE c4
        c6 == WaitAck(c5, dev)
    IN IF c6.err = "" THEN [c6 EXCEPT !.ret = gr.ver] ELSE c6

\* gr is what the device sends after the ACK of the Get frame: the length
\* byte, the version byte and the bytes of the list that arrive in time.
cmdGet(c, dev, gr) ==
    LET c1 == cmdGeneric(c, dev, 0)
        c2 == ReadByte(c1, gr.len)
        c3 == ReadByte(c2, gr.ver)
        c4 == ReadData(c3, gr.len)
        c5 == IF c4.err = "" /\ (\E i \in 1..Len(gr.dat) : gr.dat[i] = 68)
              THEN [c4 EXCEPT !.extended_erase = TRUE]
              ELSE c4
        c6 == WaitAck(c5, dev)
    IN IF c6.err = "" THEN [c6 EXCEPT !.ret = gr.ver] ELSE c6

\* Once the frame is acknowledged the method raises on every path: in Python 3
\* self.sp.read()[0] is an int and has no decode() (AttributeError, or
\* IndexError on an empty read); in Python 2 ord(id) of the two id bytes, or
\* reduce() over the int of one, raises TypeError.
cmdGetID(c, dev) ==
    LET c1 == cmdGeneric(c, dev, 2)
    IN Raise(ReadData(c1, 1), "AttributeError")

\* The data of one self.sp.read(lng) at addr; the short-th data read of the
\* call times out one byte early.
DevData(c, dev, addr, lng) ==
    LET n == IF dev.short = c.r + 1 /\ lng > 0 THEN lng - 1 ELSE lng
    IN [i \in 1..n |-> MemByte(addr + i - 1)]

cmdReadMemory(c, dev, addr, lng) ==
    IF c.err # "" THEN c
    ELSE IF lng > 256 THEN Raise(c, "AssertionError")
    ELSE
    LET c0 == [c EXCEPT !.calls = Append(@, [cmd |-> 17, addr |-> addr, n |-> lng])]
        c1 == cmdGeneric(c0, dev, 17)
        c2 == WaitAck(Write(c1, encode_addr(addr)), dev)
        N == (lng - 1) % 256
        crc == Xor(N, 255)
        c3 == WaitAck(Write(c2, <<N, crc>>), dev)
        c4 == ReadData(c3, lng)
    IN IF c4.err = "" THEN [c4 EXCEPT !.ret = DevData(c3, dev, addr, lng)] ELSE c4

cmdGo(c, dev, addr) ==
    LET c1 == cmdGeneric(c, dev, 33)
    IN WaitAck(Write(c1, encode_addr(addr)), dev)

\* cmdWriteMemory with the checksum started at 0
cmdWriteMemory_seed_zero(c, dev, addr, data) ==
    IF c.err # "" THEN c
    ELSE IF Len(data) > 256 THEN Raise(c, "AssertionError")
    ELSE
    LET c0 == [c EXCEPT !.calls = Append(@, [cmd |-> 49, addr |-> addr, n |-> Len(data)])]
        c1 == cmdGeneric(c0, dev, 49)
        c2 == WaitAck(Write(c1, encode_addr(addr)), dev)
        lng == (Len(data) - 1) % 256
        c3 == Write(c2, <<lng>>)
        crc == XorFold(0, data)
        c4 == WriteEach(c3, data)
        c5 == Write(c4, <<crc>>)
    IN WaitAck(c5, dev)

cmdWriteMemory(c, dev, addr, data) ==
    IF c.err # "" THEN c
    ELSE IF Len(data) > 256 THEN Raise(c, "AssertionError")
    ELSE
    LET c0 == [c EXCEPT !.calls = Append(@, [cmd |-> 49, addr |-> addr, n |-> Len(data)])]
        c1 == cmdGeneric(c0, dev, 49)
        c2 == WaitAck(Write(c1, encode_addr(addr)), dev)
        lng == (Len(data) - 1) % 256
        c3 == Write(c2, <<lng>>)
        crc == XorFold(255, data)
        c4 == WriteEach(c3, data)
        c5 == Write(c4, <<crc>>)
    IN WaitAck(c5, dev)

RECURSIVE WritePages(_, _, _)
\* for c in sectors: page = self._cast_to_two_bytes(c); self.sp.write(page)
WritePages(c, s, i) ==
    IF i > Len(s) \/ c.err # "" THEN c
    ELSE WritePages(Write(c, cast_to_two_bytes(s[i])), s, i + 1)

RECURSIVE PageCrc(_, _, _)
\* for c in sectors: crc = crc ^ page[0]; crc = crc ^ page[1]
PageCrc(crc, s, i) ==
    IF i > Len(s) THEN crc
    ELSE PageCrc(Xor(Xor(crc, cast_to_two_bytes(s[i])[1]), cast_to_two_bytes(s[i])[2]), s, i + 1)

\* sectors is [isNone |-> TRUE] for None, [isNone |-> FALSE, ids |-> list] otherwise.
cmdExtendedEraseMemory(c, dev, sectors) ==
    LET c1 == cmdGeneric(c, dev, 68)
    IN IF sectors.isNone
       THEN LET c2 == Write(Write(Write(c1, <<255>>), <<255>>), <<0>>)
                tmp == c2.timeout
                c3 == IF c2.err = "" THEN [c2 EXCEPT !.timeout = EraseTimeout] ELSE c2
                c4 == WaitAck(c3, dev)
            IN IF c4.err = "" THEN [c4 EXCEPT !.timeout = tmp] ELSE c4
       ELSE LET sec_len == cast_to_two_bytes(Len(sectors.ids) - 1)
                crc == PageCrc(Xor(Xor(0, sec_len[1]), sec_len[2]), sectors.ids, 1)
                c2 == Write(c1, sec_len)
                c3 == WritePages(c2, sectors.ids, 1)
                c4 == Write(c3, <<crc>>)
            IN WaitAck(c4, dev)

cmdEraseMemory_ignore_flag(c, dev, sectors) ==
    LET c1 == cmdGeneric(c, dev, 67)
        c2 == IF sectors.isNone
              THEN Write(Write(c1, <<255>>), <<0>>)
              ELSE LET c3 == Write(c1, <<(Len(sectors.ids) - 1) % 256>>)
                       crc == XorFold(255, sectors.ids)
                       c4 == WriteEach(c3, sectors.ids)
                   IN Write(c4, <<crc>>)
    IN WaitAck(c2, dev)

cmdEraseMemory(c, dev, sectors) ==
    IF c.extended_erase THEN cmdExtendedEraseMemory(c, dev, sectors)
    ELSE
    LET c1 == cmdGeneric(c, dev, 67)
        c2 == IF sectors.isNone
              THEN Write(Write(c1, <<255>>), <<0>>)
              ELSE LET c3 == Write(c1, <<(Len(sectors.ids) - 1) % 256>>)
                       crc == XorFold(255, sectors.ids)
                       c4 == WriteEach(c3, sectors.ids)
                   IN Write(c4, <<crc>>)
    IN WaitAck(c2, dev)

\* cmdGeneric(0x73), then two more handshakes.  The else branches of these
\* three methods are dead: cmdGeneric returns 1 or raises.
cmdWriteUnprotect(c, dev) == WaitAck(WaitAck(cmdGeneric(c, dev, 115), dev), dev)

cmdReadoutProtect(c, dev) == WaitAck(WaitAck(cmdGeneric(c, dev, 130), dev), dev)

cmdReadoutUnprotect(c, dev) == WaitAck(WaitAck(cmdGeneric(c, dev, 146), dev), dev)

(***************************************************************************)
(* Chunked transfer.                                                       *)
(***************************************************************************)
RECURSIVE readLoop(_, _, _, _, _)
\* The while loop and the final cmdReadMemory of readMemory; data is the
\* bytearray collected so far.
readLoop(c, dev, addr, lng, data) ==
    IF c.err # "" THEN c
    ELSE IF lng > 256
    THEN LET c1 == cmdReadMemory(c, dev, addr, 256)
         IN readLoop(c1, dev, addr + 256, lng - 256, data \o c1.ret)
    ELSE LET c1 == cmdReadMemory(c, dev, addr, lng)
         IN IF c1.err = "" THEN [c1 EXCEPT !.ret = data \o c1.ret] ELSE c1

RECURSIVE readLoop_ge(_, _, _, _, _)
\* readLoop with the loop test lng >= 256
readLoop_ge(c, dev, addr, lng, data) ==
    IF c.err # "" THEN c
    ELSE IF lng >= 256
    THEN LET c1 == cmdReadMemory(c, dev, addr, 256)
         IN readLoop_ge(c1, dev, addr + 256, lng - 256, data \o c1.ret)
    ELSE LET c1 == cmdReadMemory(c, dev, addr, lng)
         IN IF c1.err = "" THEN [c1 EXCEPT !.ret = data \o c1.ret] ELSE c1

readMemory_ge(c, dev, addr, lng) == readLoop_ge(c, dev, addr, lng, <<>>)

readMemory(c, dev, addr, lng) == readLoop(c, dev, addr, lng, <<>>)

SubSeq0(s, from, to) ==
    \* Python's s[from:to] on 0-based offsets
    SubSeq(s, from + 1, IF to > Len(s) THEN Len(s) ELSE to)

RECURSIVE writeLoop(_, _, _, _, _)
\* The while loop of writeMemory, then data.extend() on the caller's buffer
\* c.buf and the final cmdWriteMemory.
writeLoop(c, dev, addr, lng, offs) ==
    IF c.err # "" THEN c
    ELSE IF lng > 256
    THEN LET c1 == cmdWriteMemory(c, dev, addr, SubSeq0(c.buf, offs, offs + 256))
         IN writeLoop(c1, dev, addr + 256, lng - 256, offs + 256)
    ELSE LET c1 == [c EXCEPT !.buf = @ \o [i \in 1..(256 - lng) |-> 255]]
         IN cmdWriteMemory(c1, dev, addr, SubSeq0(c1.buf, offs, offs + 256))

RECURSIVE writeLoop_nopad(_, _, _, _, _)
\* writeLoop without the data.extend() before the last chunk
writeLoop_nopad(c, dev, addr, lng, offs) ==
    IF c.err # "" THEN c
    ELSE IF lng > 256
    THEN LET c1 == cmdWriteMemory(c, dev, addr, SubSeq0(c.buf, offs, offs + 256))
         IN writeLoop_nopad(c1, dev, addr + 256, lng - 256, offs + 256)
    ELSE cmdWriteMemory(c, dev, addr, SubSeq0(c.buf, offs, offs + 256))

RECURSIVE writeLoop_pad_copy(_, _, _, _, _)
\* writeLoop that pads a copy of the buffer: data = data + [0xFF] * (256 - lng)
writeLoop_pad_copy(c, dev, addr, lng, offs) ==
    IF c.err # "" THEN c
    ELSE IF lng > 256
    THEN LET c1 == cmdWriteMemory(c, dev, addr, SubSeq0(c.buf, offs, offs + 256))
         IN writeLoop_pad_copy(c1, dev, addr + 256, lng - 256, offs + 256)
    ELSE LET data == c.buf \o [i \in 1..(256 - lng) |-> 255]
         IN cmdWriteMemory(c, dev, addr, SubSeq0(data, offs, offs + 256))

writeMemory_pad_copy(c, dev, addr, data) ==
    writeLoop_pad_copy([c EXCEPT !.buf = data], dev, addr, Len(data), 0)

writeMemory_nopad(c, dev, addr, data) ==
    writeLoop_nopad([c EXCEPT !.buf = data], dev, addr, Len(data), 0)

writeMemory(c, dev, addr, data) ==
    writeLoop([c EXCEPT !.buf = data], dev, addr, Len(data), 0)

(***************************************************************************)
(* Inputs.                                                                 *)
(***************************************************************************)
\* Devices that break one of the first n handshakes, or none.
DevUpTo(n) == {d \in AckDevices : d.failAt <= n}

Lists(S, lo, hi) == UNION {[1..m -> S] : m \in lo..hi}

GetResponses ==
    {[len |-> NoByte, ver |-> NoByte, dat |-> <<>>]}
    \cup {[len |-> n, ver |-> NoByte, dat |-> <<>>] : n \in 0..MaxGetLen}
    \cup UNION {{[len |-> n, ver |-> v, dat |-> d] : v \in {34, 68}, d \in Lists({0, 67, 68}, 0, n)} :
                n \in 0..MaxGetLen}

SectorIds == {0, 2, 5, 255, 256, 65535}

EraseSpecs ==
    {[isNone |-> TRUE, ids |-> <<>>]}
    \cup {[isNone |-> FALSE, ids |-> s] : s \in Lists(SectorIds, 1, MaxSectors)}

Addrs == {134217728, 536870656}     \* 0x08000000, 0x1FFFFF00

Lengths == {L \in 1..MaxLen : L % 256 \in {0, 1, 44, 255} \/ L = MaxLen}

FrameLengths == {L \in Lengths : L <= 257}

\* A caller's buffer of L bytes.
Data(L, seed) == [i \in 1..L |-> (seed + 3 * i) % 256]

Seeds == {0, 254}

(***************************************************************************)
(* The state machine.                                                      *)
(***************************************************************************)
\* The object as a call finds it; the call's trace starts at io0.
Ctx(io0) ==
    [io |-> io0, k |-> 0, r |-> 0, err |-> "", ret |-> <<>>, calls |-> <<>>,
     buf |-> <<>>, extended_erase |-> extended_erase, timeout |-> timeout,
     pin_boot0 |-> pin_boot0, pin_rst |-> pin_rst,
     rts_pol |-> rts_pol, dtr_pol |-> dtr_pol]

\* The state a call leaves: an exception returns no value.
Finish(name, a, c) ==
    /\ op' = name
    /\ arg' = a
    /\ io' = c.io
    /\ err' = c.err
    /\ ret' = IF c.err = "" THEN c.ret ELSE <<>>
    /\ calls' = c.calls
    /\ buf' = c.buf
    /\ extended_erase' = c.extended_erase
    /\ timeout' = c.timeout
    /\ UNCHANGED <<pin_boot0, pin_rst, rts_pol, dtr_pol>>

\* open() with a valid line assignment: lines 78-95.  Both polarities are
\* False; dtr_polarity() and rts_polarity() are the only writers of them and
\* the script never calls them.
Opened(pb, pr) ==
    /\ op = "idle"
    /\ arg = <<>>
    /\ io = <<>>
    /\ err = ""
    /\ ret = <<>>
    /\ calls = <<>>
    /\ buf = <<>>
    /\ extended_erase = FALSE
    /\ timeout = ReadTimeout
    /\ pin_boot0 = pb
    /\ pin_rst = pr
    /\ rts_pol = 0
    /\ dtr_pol = 0
    /\ erased = {}
    /\ negotiated = FALSE
    /\ sync = ""
    /\ released = 0

Init ==
    /\ \E pb \in {"RTS", "DTR"}, pr \in {"RTS", "DTR"} : pb # pr /\ Opened(pb, pr)
    /\ pc = "lib"

Lib == UNCHANGED <<erased, negotiated, pc, sync, released>>

\* The caller is between two calls of the object's methods.
Idle == pc = "lib" /\ op = "idle"

\* The call has returned or raised; the caller goes on.  The object keeps its
\* fields, the record of the call is dropped.
Return ==
    /\ pc = "lib"
    /\ op # "idle"
    /\ op' = "idle"
    /\ arg' = <<>>
    /\ io' = <<>>
    /\ err' = ""
    /\ ret' = <<>>
    /\ calls' = <<>>
    /\ buf' = <<>>
    /\ UNCHANGED <<extended_erase, timeout, pin_boot0, pin_rst, rts_pol, dtr_pol,
                   erased, negotiated, pc, sync, released>>

WaitForAsk ==
    \E b \in Byte \cup {NoByte} :
        LET c == WaitAck(Ctx(<<>>), [failAt |-> 1, failByte |-> b, short |-> 0])
        IN /\ Idle
           /\ Finish("_wait_for_ask", [b |-> b], [c EXCEPT !.ret = 1])
           /\ Lib

InitChip ==
    \E dev \in DevUpTo(1) :
        /\ Idle
        /\ Finish("initChip", [dev |-> dev], initChip(Ctx(<<>>), dev))
        /\ Lib

ReleaseChip ==
    /\ Idle
    /\ Finish("releaseChip", <<>>, releaseChip(Ctx(<<>>)))
    /\ Lib

CmdGet ==
    \E dev \in DevUpTo(2), gr \in GetResponses :
        LET c == cmdGet(Ctx(<<>>), dev, gr)
        IN /\ Idle
           /\ Finish("cmdGet", [dev |-> dev, gr |-> gr], c)
           /\ negotiated' = (negotiated \/ c.err = "")
           /\ UNCHANGED <<erased, pc, sync, released>>

CmdEraseMemory ==
    \E dev \in DevUpTo(2), sectors \in EraseSpecs :
        LET c == cmdEraseMemory(Ctx(<<>>), dev, sectors)
        IN /\ Idle
           /\ Finish("cmdEraseMemory", [dev |-> dev, sectors |-> sectors], c)
           /\ erased' = erased \cup {c.io[1].v}
           /\ UNCHANGED <<negotiated, pc, sync, released>>

CmdReadMemory ==
    \E dev \in {d \in Devices : d.failAt <= 3 /\ d.short <= 1},
       addr \in Addrs, lng \in FrameLengths :
        /\ Idle
        /\ Finish("cmdReadMemory", [dev |-> dev, addr |-> addr, lng |-> lng],
                  cmdReadMemory(Ctx(<<>>), dev, addr, lng))
        /\ Lib

CmdWriteMemory ==
    \E dev \in DevUpTo(3), addr \in Addrs, lng \in FrameLengths, seed \in Seeds :
        /\ Idle
        /\ Finish("cmdWriteMemory", [dev |-> dev, addr |-> addr, data |-> Data(lng, seed)],
                  cmdWriteMemory(Ctx(<<>>), dev, addr, Data(lng, seed)))
        /\ Lib

CmdGo ==
    \E dev \in DevUpTo(2), addr \in Addrs :
        /\ Idle
        /\ Finish("cmdGo", [dev |-> dev, addr |-> addr], cmdGo(Ctx(<<>>), dev, addr))
        /\ Lib

Next ==
    \/ WaitForAsk
    \/ InitChip
    \/ ReleaseChip
    \/ CmdGet
    \/ CmdEraseMemory
    \/ CmdReadMemory
    \/ CmdWriteMemory
    \/ CmdGo
    \/ Return

Spec == Init /\ [][Next]_vars

(***************************************************************************)
(* Chunked transfers on an opened object.                                  *)
(***************************************************************************)
ReadMemory ==
    \E dev \in Devices, addr \in Addrs, lng \in Lengths :
        /\ Idle
        /\ Finish("readMemory", [dev |-> dev, addr |-> addr, lng |-> lng],
                  readMemory(Ctx(<<>>), dev, addr, lng))
        /\ Lib

WriteMemory ==
    \E dev \in AckDevices, addr \in Addrs, lng \in Lengths, seed \in Seeds :
        /\ Idle
        /\ Finish("writeMemory", [dev |-> dev, addr |-> addr, data |-> Data(lng, seed)],
                  writeMemory(Ctx(<<>>), dev, addr, Data(lng, seed)))
        /\ Lib

NextXfer ==
    \/ ReadMemory
    \/ WriteMemory
    \/ Return

SpecXfer == Init /\ [][NextXfer]_vars

(***************************************************************************)
(* The driver session of __main__, from cmd.open() to the finally clause.  *)
(* io is the trace of the whole session.  cmdGetID raises on every path,   *)
(* so the statements after it (lines 513-545) never run.                   *)
(***************************************************************************)
\* cmd.open(conf['port'], conf['baud']): boot0 = "RTS", rst = "DTR".
InitMain == Opened("RTS", "DTR") /\ pc = "init"

\* Where the try block goes after a statement: an exception leaves it for the
\* finally clause.
TryNext_no_finally(c, nxt) == IF c.err # "" THEN "done" ELSE nxt

TryNext(c, nxt) == IF c.err # "" THEN "finally" ELSE nxt

\* try: cmd.initChip() except: print(...)
MainInitChip ==
    \E dev \in DevUpTo(1) :
        LET c == initChip(Ctx(io), dev)
        IN /\ pc = "init"
           /\ Finish("initChip", [dev |-> dev], [c EXCEPT !.err = ""])
           /\ sync' = IF c.err = "" THEN "ack" ELSE c.err
           /\ pc' = "get"
           /\ UNCHANGED <<erased, negotiated, released>>

\* bootversion = cmd.cmdGet()
MainCmdGet ==
    \E dev \in DevUpTo(2), gr \in GetResponses :
        LET c == cmdGet(Ctx(io), dev, gr)
        IN /\ pc = "get"
           /\ Finish("cmdGet", [dev |-> dev, gr |-> gr], c)
           /\ pc' = TryNext(c, "getid")
           /\ negotiated' = (c.err = "")
           /\ UNCHANGED <<erased, sync, released>>

\* id = cmd.cmdGetID()
MainCmdGetID ==
    \E dev \in DevUpTo(1) :
        LET c == cmdGetID(Ctx(io), dev)
        IN /\ pc = "getid"
           /\ Finish("cmdGetID", [dev |-> dev], c)
           /\ pc' = TryNext(c, "load")
           /\ UNCHANGED <<erased, negotiated, sync, released>>

\* finally: cmd.releaseChip(); the exception, if any, goes on to the caller.
MainFinally ==
    LET c == releaseChip(Ctx(io))
    IN /\ pc = "finally"
       /\ Finish("releaseChip", <<>>, [c EXCEPT !.err = err])
       /\ released' = released + 1
       /\ pc' = "done"
       /\ UNCHANGED <<erased, negotiated, sync>>

NextMain ==
    \/ MainInitChip
    \/ MainCmdGet
    \/ MainCmdGetID
    \/ MainFinally

SpecMain == InitMain /\ [][NextMain]_vars

(***************************************************************************)
(* An object from its construction: open(), the polarity setters, and the  *)
(* control-line sequences on the opened object.                            *)
(***************************************************************************)
\* self.sp does not exist: its timeout is no number of seconds.
NoTransport == 0

\* CommandInterface(): no instance attribute is set, extended_erase is the
\* class attribute 0.
InitNew ==
    /\ op = "idle"
    /\ arg = <<>>
    /\ io = <<>>
    /\ err = ""
    /\ ret = <<>>
    /\ calls = <<>>
    /\ buf = <<>>
    /\ extended_erase = FALSE
    /\ timeout = NoTransport
    /\ pin_boot0 = Unset
    /\ pin_rst = Unset
    /\ rts_pol = Unset
    /\ dtr_pol = Unset
    /\ erased = {}
    /\ negotiated = FALSE
    /\ sync = ""
    /\ released = 0
    /\ pc = "new"

LineNames == {"RTS", "DTR", "rts", "dtr", "CTS", ""}

\* open() on the new object.  When it raises, the caller has no usable
\* object: the model stops there.
Open ==
    \E portOk \in BOOLEAN, b0 \in LineNames, r \in LineNames :
        LET c == open(Ctx(<<>>), portOk, b0, r)
        IN /\ pc = "new"
           /\ op' = "open"
           /\ arg' = [portOk |-> portOk, boot0 |-> b0, rst |-> r]
           /\ io' = c.io
           /\ err' = c.err
           /\ ret' = <<>>
           /\ calls' = <<>>
           /\ buf' = <<>>
           /\ timeout' = c.timeout
           /\ pin_boot0' = c.pin_boot0
           /\ pin_rst' = c.pin_rst
           /\ rts_pol' = c.rts_pol
           /\ dtr_pol' = c.dtr_pol
           /\ pc' = IF c.err = "" THEN "lib" ELSE "failed"
           /\ UNCHANGED <<extended_erase, erased, negotiated, sync, released>>

\* rts_polarity(invert) with invert False or True; it may be called before
\* open(), which then sets the polarity back to False.
RtsPolarity ==
    \E invert \in {0, 1} :
        /\ pc \in {"new", "lib"}
        /\ op = "idle"
        /\ rts_pol' = invert
        /\ UNCHANGED <<op, arg, io, err, ret, calls, buf, extended_erase, timeout,
                       pin_boot0, pin_rst, dtr_pol, erased, negotiated, pc, sync,
                       released>>

DtrPolarity ==
    \E invert \in {0, 1} :
        /\ pc \in {"new", "lib"}
        /\ op = "idle"
        /\ dtr_pol' = invert
        /\ UNCHANGED <<op, arg, io, err, ret, calls, buf, extended_erase, timeout,
                       pin_boot0, pin_rst, rts_pol, erased, negotiated, pc, sync,
                       released>>

NextOpen ==
    \/ Open
    \/ RtsPolarity
    \/ DtrPolarity
    \/ InitChip
    \/ ReleaseChip
    \/ Return

SpecOpen == InitNew /\ [][NextOpen]_vars

(***************************************************************************)
(* The frame primitives and the protection commands on an opened object.   *)
(***************************************************************************)
\* The halves of the 32-bit addresses whose four bytes are each one of these.
AddrBytes == {0, 1, 127, 128, 255}

AddrWords == {(256 * a) + b : a \in AddrBytes, b \in AddrBytes}

CmdGeneric ==
    \E dev \in DevUpTo(1), cmd \in Byte :
        /\ Idle
        /\ Finish("cmdGeneric", [dev |-> dev, cmd |-> cmd], cmdGeneric(Ctx(<<>>), dev, cmd))
        /\ Lib

EncodeAddr ==
    \E hi \in AddrWords, lo \in AddrWords :
        /\ Idle
        /\ Finish("_encode_addr", [hi |-> hi, lo |-> lo],
                  [Ctx(<<>>) EXCEPT !.ret = encode_addr_words(hi, lo)])
        /\ Lib

CmdWriteUnprotect ==
    \E dev \in DevUpTo(3) :
        /\ Idle
        /\ Finish("cmdWriteUnprotect", [dev |-> dev], cmdWriteUnprotect(Ctx(<<>>), dev))
        /\ Lib

CmdReadoutProtect ==
    \E dev \in DevUpTo(3) :
        /\ Idle
        /\ Finish("cmdReadoutProtect", [dev |-> dev], cmdReadoutProtect(Ctx(<<>>), dev))
        /\ Lib

CmdReadoutUnprotect ==
    \E dev \in DevUpTo(3) :
        /\ Idle
        /\ Finish("cmdReadoutUnprotect", [dev |-> dev], cmdReadoutUnprotect(Ctx(<<>>), dev))
        /\ Lib

NextFrame ==
    \/ CmdGeneric
    \/ EncodeAddr
    \/ CmdWriteUnprotect
    \/ CmdReadoutProtect
    \/ CmdReadoutUnprotect
    \/ Return

SpecFrame == Init /\ [][NextFrame]_vars

(***************************************************************************)
(* Properties.                                                             *)
(***************************************************************************)
\* The bytes a trace writes to the transport, in order.
Tx(t) ==
    LET w == SelectSeq(t, LAMBDA x : x.e = "w")
    IN [i \in 1..Len(w) |-> w[i].v]

\* The device acknowledges the first h handshakes of the call.
Acked(dev, h) == dev.failAt = 0 \/ dev.failAt > h

W(b) == [e |-> "w", v |-> b]

A(b) == [e |-> "ack", v |-> b]

\* C1: _wait_for_ask reads exactly one byte and classifies it exhaustively:
\* 0x79 returns 1, 0x1F raises the NACK error, every other byte raises the
\* unknown-response error, a read that returns nothing raises the timeout
\* error; nothing but 0x79 is a success.
C1_WaitForAskExhaustive ==
    op = "_wait_for_ask" =>
        /\ io = <<A(arg.b)>>
        /\ (arg.b = 121 => err = "" /\ ret = 1)
        /\ (arg.b = 31 => err = "nack")
        /\ (arg.b \in (0..255) \ {121, 31} => err = "unknown")
        /\ (arg.b = NoByte => err = "timeout")
        /\ (err = "" => arg.b = 121)
        /\ err \in {"", "nack", "unknown", "timeout"}

C1_Witness == op = "_wait_for_ask" /\ arg.b = 0 /\ err = "unknown"

\* C2: in a driver session releaseChip (boot0 driven to 1, then the reset
\* line driven to 0 and to 1) runs exactly once, as the last thing the
\* session does, on every exit path; it has not run before the session ends,
\* and the session cannot stop anywhere else.
C2_ReleaseExactlyOnce ==
    /\ pc \in {"init", "get", "getid", "finally", "done"}
    /\ (pc # "done" => released = 0 /\ ENABLED NextMain)
    /\ (pc = "done" =>
            /\ released = 1
            /\ Len(io) >= 3
            /\ SubSeq(io, Len(io) - 2, Len(io)) =
                   <<[e |-> "RTS", v |-> 1], [e |-> "DTR", v |-> 0], [e |-> "DTR", v |-> 1]>>
            /\ \A i \in 1..(Len(io) - 3) : io[i] # [e |-> "RTS", v |-> 1])

C2_Witness == pc = "done" /\ released = 1 /\ sync = "ack" /\ err = "nack"

\* C3: in a driver session no Get frame and no later command frame is written
\* unless the synchronization byte 0x7F was answered with ACK.
C3_GetOnlyAfterSync == sync \notin {"", "ack"} => Tx(io) = <<127>>

\* ceil(L / 256)
Chunks(L) == (L + 255) \div 256

\* The size of chunk k of n chunks of a transfer of L bytes.
ChunkLen(L, k) == IF k < Chunks(L) THEN 256 ELSE L - 256 * (Chunks(L) - 1)

\* The bytes of one read frame: opcode and complement, the address block, the
\* length byte and its complement.
ReadFrameTx(a, n) == <<17, 238>> \o encode_addr(a) \o <<n - 1, 255 - (n - 1)>>

RECURSIVE ReadFramesTx(_, _, _)
ReadFramesTx(a, L, k) ==
    IF k > Chunks(L) THEN <<>>
    ELSE ReadFrameTx(a + 256 * (k - 1), ChunkLen(L, k)) \o ReadFramesTx(a, L, k + 1)

\* C4: when every handshake is acknowledged and the device returns the bytes
\* asked for, readMemory(addr, L) with L >= 1 issues exactly ceil(L/256) read
\* frames, frame k (from 0) at addr + 256*k, each for 256 bytes but the last,
\* which asks for the remainder; the result is the L bytes at addr.., in
\* address order.
C4_ReadChunks ==
    (/\ op = "readMemory"
     /\ arg.lng >= 1
     /\ Acked(arg.dev, 3 * Chunks(arg.lng))
     /\ (arg.dev.short = 0 \/ arg.dev.short > Chunks(arg.lng))) =>
        /\ err = ""
        /\ Len(calls) = Chunks(arg.lng)
        /\ \A k \in 1..Len(calls) :
                /\ calls[k].cmd = 17
                /\ calls[k].addr = arg.addr + 256 * (k - 1)
                /\ calls[k].n = ChunkLen(arg.lng, k)
                /\ calls[k].n >= 1
                /\ calls[k].n <= 256
        /\ Tx(io) = ReadFramesTx(arg.addr, arg.lng, 1)
        /\ Len(ret) = arg.lng
        /\ \A i \in 1..Len(ret) : ret[i] = MemByte(arg.addr + i - 1)

C4_Witness ==
    /\ op = "readMemory"
    /\ arg.lng = 300
    /\ err = ""
    /\ Len(calls) = 2
    /\ calls[2].n = 44
    /\ Len(ret) = 300

\* The payload byte at offset j (from 1) of chunk k of a write of data.
Padded(data, k, j) ==
    IF 256 * (k - 1) + j <= Len(data) THEN data[256 * (k - 1) + j] ELSE 255

\* C5: when every handshake is acknowledged, writeMemory(addr, data) with
\* L = len(data) >= 1 issues exactly ceil(L/256) write frames of 265 bytes,
\* frame k (from 0) at addr + 256*k, each with length byte 0xFF and exactly
\* 256 payload bytes: the input bytes at [256k, 256k+256) in order, and 0xFF
\* at every position past the end of the input.
C5_WriteChunksPadded ==
    (/\ op = "writeMemory"
     /\ Len(arg.data) >= 1
     /\ Acked(arg.dev, 3 * Chunks(Len(arg.data)))) =>
        LET n == Chunks(Len(arg.data))
            tx == Tx(io)
        IN /\ err = ""
           /\ Len(calls) = n
           /\ Len(tx) = 265 * n
           /\ \A k \in 1..n :
                /\ calls[k].cmd = 49
                /\ calls[k].addr = arg.addr + 256 * (k - 1)
                /\ calls[k].n = 256
                /\ SubSeq(tx, 265 * (k - 1) + 1, 265 * (k - 1) + 8) =
                       <<49, 206>> \o encode_addr(arg.addr + 256 * (k - 1)) \o <<255>>
                /\ \A j \in 1..256 : tx[265 * (k - 1) + 8 + j] = Padded(arg.data, k, j)

C5_Witness ==
    /\ op = "writeMemory"
    /\ Len(arg.data) = 300
    /\ err = ""
    /\ Len(calls) = 2
    /\ Tx(io)[265 + 8 + 44] = arg.data[300]
    /\ \A j \in 45..256 : Tx(io)[265 + 8 + j] = 255

\* C6 as claimed: once cmdGet has returned, no operation changes
\* extended_erase, and the erase commands issued on one object all carry the
\* same opcode.
C6_FlagImmutableNoMix ==
    [][(negotiated => extended_erase' = extended_erase) /\ Cardinality(erased') <= 1]_vars

\* C6, amended: extended_erase is changed by cmdGet alone and only from false
\* to true, and every erase carries 0x44 exactly when the flag is set when it
\* is called; so every erase after a Get that reported 0x44 is extended.
C6_FlagOnlyRaisedByGet ==
    [][/\ (extended_erase' # extended_erase => op' = "cmdGet" /\ extended_erase' = TRUE)
       /\ (op' = "cmdEraseMemory" =>
               /\ io'[1] = W(IF extended_erase THEN 68 ELSE 67)
               /\ erased' = erased \cup {IF extended_erase THEN 68 ELSE 67})]_vars

C6_Witness ==
    /\ op = "cmdEraseMemory"
    /\ negotiated
    /\ extended_erase
    /\ io[1] = W(68)
    /\ erased = {67, 68}

\* The trace of a write of bytes.
Ws(bytes) == [i \in 1..Len(bytes) |-> W(bytes[i])]

\* C7: a global erase (sectors = None) is encoded by the flag alone: flag
\* false: frame 0x43 0xBC, and after its ACK exactly 0xFF 0x00; flag true:
\* frame 0x44 0xBB, and after its ACK exactly 0xFF 0xFF 0x00; then one
\* handshake is awaited and decides the result.  Nothing is written after a
\* frame that is not acknowledged.
C7_GlobalErase ==
    (op = "cmdEraseMemory" /\ arg.sectors.isNone) =>
        LET frame == IF extended_erase THEN <<W(68), W(187)>> ELSE <<W(67), W(188)>>
            payload == IF extended_erase THEN <<W(255), W(255), W(0)>> ELSE <<W(255), W(0)>>
            b1 == IF arg.dev.failAt = 1 THEN arg.dev.failByte ELSE 121
            b2 == IF arg.dev.failAt = 2 THEN arg.dev.failByte ELSE 121
        IN /\ (arg.dev.failAt = 1 => io = frame \o <<A(b1)>> /\ err # "")
           /\ (arg.dev.failAt # 1 => io = frame \o <<A(121)>> \o payload \o <<A(b2)>>)
           /\ (err = "" <=> Acked(arg.dev, 2))

C7_Witness ==
    /\ op = "cmdEraseMemory"
    /\ arg.sectors.isNone
    /\ extended_erase
    /\ err = ""
    /\ Tx(io) = <<68, 187, 255, 255, 0>>

\* C8: under the legacy variant, erasing a non-empty list of n sectors with
\* ids in 0..255 writes, after the acknowledged 0x43 frame, the count byte
\* (n-1) & 0xFF, the ids in order, and the XOR of the count byte and all ids.
C8_LegacySectorChecksum ==
    (/\ op = "cmdEraseMemory"
     /\ ~extended_erase
     /\ ~arg.sectors.isNone
     /\ \A i \in 1..Len(arg.sectors.ids) : arg.sectors.ids[i] \in 0..255
     /\ Acked(arg.dev, 2)) =>
        LET ids == arg.sectors.ids
            count == (Len(ids) - 1) % 256
        IN Tx(io) = <<67, 188, count>> \o ids \o <<XorFold(count, ids)>>

\* The ids of a sector list as big-endian byte pairs.
Pairs(ids) ==
    [i \in 1..(2 * Len(ids)) |->
        IF i % 2 = 1 THEN ids[(i + 1) \div 2] \div 256 ELSE ids[i \div 2] % 256]

\* C9: under the extended variant, erasing a non-empty list of n sectors with
\* ids in 0..65535 writes the 0x44 frame and, after its ACK, n-1 as two bytes
\* big-endian, each id as two bytes big-endian in order, and one byte that is
\* the XOR of all the bytes of the count and the ids; then one handshake.
C9_ExtendedSectorErase ==
    (/\ op = "cmdEraseMemory"
     /\ extended_erase
     /\ ~arg.sectors.isNone
     /\ Len(arg.sectors.ids) >= 1
     /\ \A i \in 1..Len(arg.sectors.ids) : arg.sectors.ids[i] \in 0..65535
     /\ Acked(arg.dev, 2)) =>
        LET ids == arg.sectors.ids
            n1 == Len(ids) - 1
            body == <<n1 \div 256, n1 % 256>> \o Pairs(ids)
        IN /\ err = ""
           /\ io = <<W(68), W(187), A(121)>> \o Ws(body)
                     \o <<W(XorRange(body, 1, Len(body))), A(121)>>

C9_Witness ==
    /\ op = "cmdEraseMemory"
    /\ extended_erase
    /\ ~arg.sectors.isNone
    /\ arg.sectors.ids = <<2, 5>>
    /\ err = ""
    /\ Tx(io) = <<68, 187, 0, 1, 0, 2, 0, 5, 6>>

\* C10: for a payload of 1..256 bytes cmdWriteMemory writes the 0x31 frame,
\* the address block, and after its ACK the length byte len-1, the payload in
\* order and the XOR of the length byte and all payload bytes.
C10_WriteFrameChecksum ==
    (/\ op = "cmdWriteMemory"
     /\ Len(arg.data) \in 1..256
     /\ Acked(arg.dev, 3)) =>
        LET lng == Len(arg.data) - 1
        IN Tx(io) = <<49, 206>> \o encode_addr(arg.addr) \o <<lng>> \o arg.data
                      \o <<XorFold(lng, arg.data)>>

\* C11: an extended global erase leaves the transport's read timeout as it
\* found it, whatever the final handshake brings: ACK, NACK, an unknown byte
\* or no byte.
C11_TimeoutRestored ==
    [][(op' = "cmdEraseMemory" /\ extended_erase /\ arg'.sectors.isNone)
           => timeout' = timeout]_vars

\* A handshake read that did not bring ACK.
FailedAck(x) == x.e = "ack" /\ x.v # ACK

\* The number of handshake reads in a trace.
AckCount(t) == Len(SelectSeq(t, LAMBDA x : x.e = "ack"))

\* C12: in readMemory and writeMemory a handshake that brings NACK, an
\* unknown byte or nothing is the last thing the call does: nothing is
\* written or read after it, the call raises the matching error and returns
\* nothing, the frame of the failed handshake is the last frame issued, no
\* frame address is issued twice, and every run of written bytes after the
\* first follows an ACK (or, between two read frames, the data read).
C12_FailureAborts ==
    op \in {"readMemory", "writeMemory"} =>
        LET L == IF op = "readMemory" THEN arg.lng ELSE Len(arg.data)
            f == arg.dev.failAt
            failed == f \in 1..(3 * Chunks(L))
        IN /\ \A i \in 1..Len(io) : FailedAck(io[i]) => i = Len(io)
           /\ (failed <=> err # "")
           /\ failed =>
                /\ io[Len(io)] = A(arg.dev.failByte)
                /\ err = wait_for_ask(arg.dev.failByte)
                /\ err \in {"nack", "unknown", "timeout"}
                /\ ret = <<>>
                /\ Len(calls) = (f + 2) \div 3
                /\ AckCount(io) = f
           /\ (~failed => Len(calls) = Chunks(L) /\ AckCount(io) = 3 * Chunks(L))
           /\ \A j \in 1..Len(calls), k \in 1..Len(calls) :
                j < k => calls[j].addr < calls[k].addr
           /\ \A i \in 2..Len(io) :
                (io[i].e = "w" /\ io[i - 1].e # "w") =>
                    (io[i - 1] = A(ACK) \/ (op = "readMemory" /\ io[i - 1].e = "read"))

C12_Witness ==
    /\ op = "writeMemory"
    /\ Len(arg.data) = 512
    /\ arg.dev.failAt = 2
    /\ err = "nack"
    /\ Len(calls) = 1
    /\ io[Len(io)] = A(31)
    /\ Tx(io) = <<49, 206>> \o encode_addr(arg.addr)

\* A control line driven to a level.
Line(pin, level) == [e |-> pin, v |-> level]

\* C13 as claimed: initChip drives the reset line low, then sets boot0, then
\* drives the reset line high, then writes 0x7F once and waits for one
\* handshake.
C13_ResetLowThenBoot0 ==
    op = "initChip" =>
        io = <<Line(pin_rst, 0), Line(pin_boot0, 0), Line(pin_rst, 1),
               W(127), A(Reply(arg.dev, 1))>>

\* C13, amended: initChip sets boot0 first, then drives the reset line low
\* and high, then writes 0x7F exactly once and waits for exactly one
\* handshake, whose outcome is the result; nothing follows a failed
\* handshake.
C13_Boot0ThenResetPulse ==
    op = "initChip" =>
        /\ io = <<Line(pin_boot0, 0), Line(pin_rst, 0), Line(pin_rst, 1),
                  W(127), A(Reply(arg.dev, 1))>>
        /\ (err = "" <=> Reply(arg.dev, 1) = ACK)
        /\ (err # "" => err = wait_for_ask(Reply(arg.dev, 1)))

C13_Witness ==
    /\ op = "initChip"
    /\ pin_boot0 = "DTR"
    /\ err = "timeout"
    /\ Tx(io) = <<127>>
    /\ AckCount(io) = 1

\* The line assignment open() is given names one line twice, or a line that
\* is neither RTS nor DTR.
InvalidLines(b0, r) ==
    \/ upper(b0) = upper(r)
    \/ upper(b0) \notin {"RTS", "DTR"}
    \/ upper(r) \notin {"RTS", "DTR"}

\* C14: open() on a port that exists rejects an invalid line assignment with
\* the configuration error before any I/O (the transport is not opened, nothing is written and
\* no line is driven), and after a successful open boot0 and reset are two
\* different lines among RTS and DTR.
C14_RejectBeforeIO ==
    /\ (op = "open" /\ arg.portOk /\ InvalidLines(arg.boot0, arg.rst)) =>
            /\ err = "ValueError"
            /\ io = <<>>
            /\ timeout = NoTransport
    /\ pc = "lib" =>
            /\ pin_boot0 # pin_rst
            /\ {pin_boot0, pin_rst} = {"RTS", "DTR"}

\* The opcode of a protection command.
ProtOpcode(name) ==
    CASE name = "cmdWriteUnprotect" -> 115
      [] name = "cmdReadoutProtect" -> 130
      [] name = "cmdReadoutUnprotect" -> 146

\* C15: write-unprotect (0x73), readout-protect (0x82) and readout-unprotect
\* (0x92) write their two-byte frame and nothing else, read exactly two
\* handshake bytes when both are ACK, and succeed exactly when the device
\* answers the first two handshakes with ACK.
C15_TwoAcks ==
    op \in {"cmdWriteUnprotect", "cmdReadoutProtect", "cmdReadoutUnprotect"} =>
        /\ Tx(io) = <<ProtOpcode(op), 255 - ProtOpcode(op)>>
        /\ (err = "" <=> Acked(arg.dev, 2))
        /\ (Acked(arg.dev, 2) => AckCount(io) = 2)

\* A data read of n bytes.
R(n) == [e |-> "read", v |-> n]

\* C16: cmdGet on an object whose flag is not yet set writes the 0x00 frame;
\* when the frame is not acknowledged it raises without any further read;
\* when it is, it reads the length byte N, the version byte, N further bytes
\* and the trailing handshake; it returns exactly when both handshakes are
\* ACK and both bytes arrive, and then the result is the version byte and the
\* flag is set exactly when 0x44 is among the bytes of the list.
C16_GetOnFreshObject ==
    [][(op' = "cmdGet" /\ ~extended_erase) =>
            LET gr == arg'.gr
                b1 == Reply(arg'.dev, 1)
                b2 == Reply(arg'.dev, 2)
                has44 == \E i \in 1..Len(gr.dat) : gr.dat[i] = 68
            IN /\ SubSeq(io', 1, 3) = <<W(0), W(255), A(b1)>>
               /\ (b1 # ACK => io' = <<W(0), W(255), A(b1)>> /\ err' # "" /\ ~extended_erase')
               /\ ((b1 = ACK /\ gr.len # NoByte /\ gr.ver # NoByte) =>
                       io' = <<W(0), W(255), A(ACK), R(1), R(1), R(gr.len), A(b2)>>)
               /\ (err' = "" <=> (b1 = ACK /\ b2 = ACK /\ gr.len # NoByte /\ gr.ver # NoByte))
               /\ (err' = "" => ret' = gr.ver /\ (extended_erase' <=> has44))]_vars

C16_Witness ==
    /\ op = "cmdGet"
    /\ err = ""
    /\ arg.gr = [len |-> 2, ver |-> 34, dat |-> <<67, 68>>]
    /\ io = <<W(0), W(255), A(121), R(1), R(1), R(2), A(121)>>
    /\ ret = 34
    /\ extended_erase
    /\ erased = {}

\* C17: for every opcode o in 0..255 cmdGeneric writes o, then o XOR 0xFF
\* (the complement of o in a byte), and nothing else, and then reads exactly
\* one handshake byte, whose value decides the result.
C17_GenericFrame ==
    op = "cmdGeneric" =>
        /\ arg.cmd \in 0..255
        /\ io = <<W(arg.cmd), W(255 - arg.cmd), A(Reply(arg.dev, 1))>>
        /\ \A bit \in {1, 2, 4, 8, 16, 32, 64, 128} :
               (io[1].v \div bit) % 2 # (io[2].v \div bit) % 2
        /\ (err = "" <=> Reply(arg.dev, 1) = ACK)

C17_Witness ==
    /\ op = "cmdGeneric"
    /\ arg.cmd = 68
    /\ io = <<W(68), W(187), A(31)>>
    /\ err = "nack"

\* C18: for every 32-bit address, given as its halves hi and lo,
\* _encode_addr yields five bytes: the four bytes of the address, most
\* significant first, and the XOR of the four; recombining the four bytes
\* big-endian gives back the address.
C18_EncodeAddrRoundTrip ==
    op = "_encode_addr" =>
        /\ Len(ret) = 5
        /\ \A i \in 1..5 : ret[i] \in 0..255
        /\ ret[1] = arg.hi \div 256
        /\ ret[2] = arg.hi % 256
        /\ ret[3] = arg.lo \div 256
        /\ ret[4] = arg.lo % 256
        /\ (256 * ret[1]) + ret[2] = arg.hi
        /\ (256 * ret[3]) + ret[4] = arg.lo
        /\ ret[5] = XorRange(ret, 1, 4)
        /\ \A bit \in {1, 2, 4, 8, 16, 32, 64, 128} :
               (ret[5] \div bit) % 2 =
                   (((ret[1] \div bit) % 2) + ((ret[2] \div bit) % 2)
                    + ((ret[3] \div bit) % 2) + ((ret[4] \div bit) % 2)) % 2

C18_Witness ==
    /\ op = "_encode_addr"
    /\ arg.hi = 32768 + 1
    /\ arg.lo = 255
    /\ ret = <<128, 1, 0, 255, 126>>

\* The payload of frame k of a write has been written: the frame's opcode
\* and address block were acknowledged, and so was every frame before it.
PayloadWritten(dev, k) == Acked(dev, 3 * (k - 1) + 2)

\* C19: every write frame that writeMemory issues is a frame of 256 payload
\* bytes; where its payload is written, the length byte is 0xFF, 256 payload
\* bytes follow, and the last byte of the frame is the XOR of the length
\* byte and the 256 payload bytes.
C19_ChunkedChecksumValid ==
    op = "writeMemory" =>
        LET tx == Tx(io)
        IN /\ Len(calls) >= 1
           /\ \A k \in 1..Len(calls) :
                LET start == 265 * (k - 1)
                IN /\ calls[k].n = 256
                   /\ Len(tx) >= start + 2
                   /\ tx[start + 1] = 49
                   /\ PayloadWritten(arg.dev, k) =>
                        /\ Len(tx) >= start + 265
                        /\ tx[start + 8] = 255
                        /\ tx[start + 265] = XorRange(tx, start + 8, start + 264)
                   /\ ~PayloadWritten(arg.dev, k) =>
                        /\ k = Len(calls)
                        /\ Len(tx) \in {start + 2, start + 7}
           /\ Len(tx) <= 265 * Len(calls)

C19_Witness ==
    /\ op = "writeMemory"
    /\ Len(arg.data) = 300
    /\ err = ""
    /\ Len(Tx(io)) = 530
    /\ Tx(io)[273] = 255
    /\ Tx(io)[530] = XorRange(Tx(io), 273, 529)
    /\ Tx(io)[530] # XorRange(Tx(io), 274, 273 + 44)

\* C20: when writeMemory returns, the caller's buffer of L >= 1 bytes holds
\* its L bytes unchanged, followed by 0xFF up to the length 256 * ceil(L/256):
\* len(data) is then the padded length.
C20_BufferPaddedInPlace ==
    (op = "writeMemory" /\ err = "" /\ Len(arg.data) >= 1) =>
        LET L == Len(arg.data)
        IN /\ Len(buf) = 256 * Chunks(L)
           /\ Len(buf) >= L
           /\ Len(buf) - L < 256
           /\ \A i \in 1..L : buf[i] = arg.data[i]
           /\ \A i \in (L + 1)..Len(buf) : buf[i] = 255

C20_Witness ==
    /\ op = "writeMemory"
    /\ err = ""
    /\ Len(arg.data) = 300
    /\ Len(buf) = 512
    /\ buf[300] = arg.data[300]
    /\ buf[301] = 255
    /\ buf[512] = 255

====
